---- MODULE Spec2Model ----
(***************************************************************************)
(* A model of the ns-3 object core: src/core/object.cc (the aggregation    *)
(* ring, reference counting, disposal, QueryInterface, the interface-id    *)
(* registry and the InterfaceIdTraceResolver) and                          *)
(* src/core/attribute-accessor-helper.h (the accessor adapters).           *)
(***************************************************************************)
EXTENDS Integers, Sequences, FiniteSets, TLC

(***************************************************************************)
(* Bounds of the model.                                                    *)
(***************************************************************************)
\* number of Object instances that may be constructed in one run
NumObj == 3
\* largest reference count a holder may raise a member to
MaxCount == 2

Obj == 1..NumObj
\* the null pointer
Null == 0

(***************************************************************************)
(* The interface-id registry as the self test of object.cc builds it:      *)
(* Object (the root), BaseA, DerivedA, BaseB, DerivedB, allocated in that  *)
(* order.  Uid 0 is never allocated (LookupByName asserts uid != 0).       *)
(***************************************************************************)
ObjectIid == 1
BaseAIid == 2
DerivedAIid == 3
BaseBIid == 4
DerivedBIid == 5

VARIABLES
  st,            \* Obj -> "unborn" | "alive" | "deleted"
  m_count,       \* Object::m_count
  m_iid,         \* Object::m_iid
  m_disposed,    \* Object::m_disposed
  m_collecting,  \* Object::m_collecting
  m_next,        \* Object::m_next (Null after the destructor ran)
  failed,        \* "none", or the function whose NS_ASSERT aborted the process
  released,      \* the members the last MaybeDelete call ran `delete` on, in order
  nDelete,       \* Obj -> number of times `delete` ran on the object
  nDoDispose,    \* Obj -> number of times the DoDispose hook ran
  qi,            \* the last QueryInterface call: [self, iid, ret]
  m_parents,     \* IidTree::m_parents, a vector indexed from 0
  m_names,       \* the IidManager: m_names[uid] is the name of uid
  tr,            \* the Connect or Disconnect call in flight on a resolver
  stack,         \* the DoTraceAll activations in progress, innermost last
  asked,         \* Obj -> enumeration requests to the member's resolver in this call
  delegated,     \* the calls the walks of this enumeration made, in order
  a_obj,         \* AObj -> the ObjectBase: its class, its member m, another member n
  a_box,         \* ABox -> the boxed value: its class and its value v
  a_last         \* the last accessor call: [op, shape, obj, box, ret]

objVars == <<st, m_count, m_iid, m_disposed, m_collecting, m_next, failed,
             released, nDelete, nDoDispose, qi>>

\* an NS_ASSERT failed: the process has aborted
fatal == failed # "none"
regVars == <<m_parents, m_names>>
traceVars == <<tr, stack, asked, delegated>>
accVars == <<a_obj, a_box, a_last>>
vars == <<objVars, regVars, traceVars, accVars>>

(***************************************************************************)
(* IidTree and InterfaceId.                                                *)
(***************************************************************************)
\* the registry built by the static initialisers of the self test
TestParents == [i \in 0..5 |->
                 CASE i = 0 -> 0
                   [] i = ObjectIid -> ObjectIid
                   [] i = BaseAIid -> ObjectIid
                   [] i = DerivedAIid -> BaseAIid
                   [] i = BaseBIid -> ObjectIid
                   [] i = DerivedBIid -> BaseBIid]
TestNames == <<"Object", "BaseA", "DerivedA", "BaseB", "DerivedB">>

\* the registered uids
Iids == 1..Len(m_names)

\* IidTree::LookupParent; the NS_ASSERT (child < size) is the caller's guard
LookupParent(child) == m_parents[child]

(***************************************************************************)
(* Ring walks.  Every loop of object.cc over the ring is a do-while that   *)
(* starts at the receiver and follows m_next until it is back at the       *)
(* receiver.  The walk stops after NumObj + 1 members at the latest (a     *)
(* chain that never returns to the receiver does not end in the code).     *)
(***************************************************************************)
RECURSIVE RingWalk(_, _, _, _)
RingWalk(nxt, start, cur, acc) ==
  IF cur = Null \/ Len(acc) > NumObj THEN acc
  ELSE LET acc2 == Append(acc, cur) IN
       IF nxt[cur] = start THEN acc2
       ELSE RingWalk(nxt, start, nxt[cur], acc2)

\* the members the walk from o visits, in order, o first
Ring(nxt, o) == RingWalk(nxt, o, o, <<>>)

Range(s) == {s[i] : i \in 1..Len(s)}
RingSet(nxt, o) == Range(Ring(nxt, o))

RECURSIVE SumCount(_, _)
SumCount(cnt, s) ==
  IF s = <<>> THEN 0 ELSE cnt[Head(s)] + SumCount(cnt, Tail(s))

\* Object::Check in its place: the receiver's own count is positive
CheckOwn(cnt, nxt, o) == cnt[o] > 0

\* Object::CheckLoose: the aggregate reference count is positive
CheckLoose(cnt, nxt, o) == SumCount(cnt, Ring(nxt, o)) > 0

(***************************************************************************)
(* Object::DoQueryInterface.                                               *)
(***************************************************************************)
\* a match on the member's own type alone: no climb
ClimbNot(cur, iid) == cur

\* the inner loop: climb the parent chain from cur until it is iid or the root
RECURSIVE ClimbTo(_, _)
ClimbTo(cur, iid) ==
  IF cur # iid /\ cur # ObjectIid THEN ClimbTo(LookupParent(cur), iid) ELSE cur

\* the is-a test the wrong way round: the requested type derives from the member's
DoQueryInterfaceReversed(self, iid) ==
  LET r == Ring(m_next, self)
      hits == {i \in 1..Len(r) : ClimbTo(iid, m_iid[r[i]]) = m_iid[r[i]]}
  IN IF hits = {} THEN Null
     ELSE r[CHOOSE i \in hits : \A j \in hits : i <= j]

\* a walk that goes on after a match and returns the last member that matches
DoQueryInterfaceLast(self, iid) ==
  LET r == Ring(m_next, self)
      hits == {i \in 1..Len(r) : ClimbTo(m_iid[r[i]], iid) = iid}
  IN IF hits = {} THEN Null
     ELSE r[CHOOSE i \in hits : \A j \in hits : i >= j]

\* the outer do-while: the first member, in ring order from self, that matches
DoQueryInterface(self, iid) ==
  LET r == Ring(m_next, self)
      hits == {i \in 1..Len(r) : ClimbTo(m_iid[r[i]], iid) = iid}
  IN IF hits = {} THEN Null
     ELSE r[CHOOSE i \in hits : \A j \in hits : i <= j]

(***************************************************************************)
(* Object::MaybeDelete: the members `delete` runs on, in order; none when  *)
(* some member of the ring still has a count.                              *)
(***************************************************************************)
\* a release decided by the receiver's own count alone
MaybeDeleteLocal(cnt, self) ==
  IF cnt[self] # 0 THEN <<>> ELSE Ring(m_next, self)

\* a release of the receiver alone
MaybeDeleteSelf(cnt, self) ==
  LET r == Ring(m_next, self) IN
  IF \E i \in 1..Len(r) : cnt[r[i]] # 0 THEN <<>> ELSE <<self>>

MaybeDelete(cnt, self) ==
  LET r == Ring(m_next, self) IN
  IF \E i \in 1..Len(r) : cnt[r[i]] # 0 THEN <<>> ELSE r

\* how often o occurs in s
Occurrences(s, o) == Cardinality({i \in 1..Len(s) : s[i] = o})

qiNone == [self |-> Null, iid |-> 0, ret |-> Null]
trNone == [op |-> "none", agg |-> Null, path |-> <<>>, calls |-> <<>>]

(***************************************************************************)
(* The state before any object is constructed.                             *)
(***************************************************************************)
InitObjects ==
  /\ st = [o \in Obj |-> "unborn"]
  /\ m_count = [o \in Obj |-> 0]
  /\ m_iid = [o \in Obj |-> 0]
  /\ m_disposed = [o \in Obj |-> FALSE]
  /\ m_collecting = [o \in Obj |-> FALSE]
  /\ m_next = [o \in Obj |-> Null]
  /\ failed = "none"
  /\ released = <<>>
  /\ nDelete = [o \in Obj |-> 0]
  /\ nDoDispose = [o \in Obj |-> 0]
  /\ qi = qiNone

InitRegistry ==
  /\ m_parents = TestParents
  /\ m_names = TestNames

InitTrace ==
  /\ tr = trNone
  /\ stack = <<>>
  /\ asked = [o \in Obj |-> 0]
  /\ delegated = <<>>

\* largest value a boxed value holds
MaxVal == 3
\* number of values the member's type U holds: 0 .. UValues - 1
UValues == 3

\* three objects: of the accessor's owner type T, of a class derived from T,
\* and of an unrelated class; two boxed values: of the accessor's value type V
\* and of another type
AObj == 1..3
ABox == 1..2
ObjClass == <<"T", "TDerived", "Other">>
BoxClass == <<"V", "W">>
Shapes == {"field", "getter", "setter", "pairSG", "pairGS"}

InitAcc ==
  /\ a_obj = [o \in AObj |-> [cls |-> ObjClass[o], m |-> 0, n |-> o]]
  /\ a_box = [b \in ABox |-> [cls |-> BoxClass[b], v |-> 0]]
  /\ a_last = [op |-> "none", shape |-> "none", obj |-> 0, box |-> 0, ret |-> FALSE]

Init == InitObjects /\ InitRegistry /\ InitTrace /\ InitAcc

Alive == {o \in Obj : st[o] = "alive"}

\* the program runs one call at a time: no call is in flight and none has aborted
Idle ==
  /\ ~fatal
  /\ qi = qiNone
  /\ tr = trNone
  /\ stack = <<>> /\ asked = [o \in Obj |-> 0]

(***************************************************************************)
(* CreateObject<T> (): Object::Object followed by SetInterfaceId (iid).    *)
(* Storage is handed out in the order 1, 2, ...                            *)
(***************************************************************************)
Create(o, iid) ==
  /\ Idle
  /\ st[o] = "unborn"
  /\ \A p \in Obj : p < o => st[p] # "unborn"
  /\ st' = [st EXCEPT ![o] = "alive"]
  /\ m_count' = [m_count EXCEPT ![o] = 1]
  /\ m_iid' = [m_iid EXCEPT ![o] = iid]
  /\ m_disposed' = [m_disposed EXCEPT ![o] = FALSE]
  /\ m_collecting' = [m_collecting EXCEPT ![o] = FALSE]
  /\ m_next' = [m_next EXCEPT ![o] = o]
  /\ UNCHANGED <<failed, released, nDelete, nDoDispose, qi, regVars, accVars, traceVars>>

(***************************************************************************)
(* Object::Ref and Object::Unref (object.h).                               *)
(***************************************************************************)
Ref(o) ==
  /\ Idle
  /\ st[o] = "alive"
  /\ m_count[o] < MaxCount
  /\ m_count' = [m_count EXCEPT ![o] = @ + 1]
  /\ UNCHANGED <<st, m_iid, m_disposed, m_collecting, m_next, failed,
                 released, nDelete, nDoDispose, qi, regVars, accVars, traceVars>>

Unref(o) ==
  /\ Idle
  /\ st[o] = "alive"
  /\ m_count[o] > 0
  /\ LET cnt == [m_count EXCEPT ![o] = @ - 1]
         del == IF cnt[o] = 0 THEN MaybeDelete(cnt, o) ELSE <<>>
     IN /\ m_count' = cnt
        /\ st' = [p \in Obj |-> IF p \in Range(del) THEN "deleted" ELSE st[p]]
        /\ m_next' = [p \in Obj |-> IF p \in Range(del) THEN Null ELSE m_next[p]]
        /\ nDelete' = [p \in Obj |-> nDelete[p] + Occurrences(del, p)]
        /\ released' = IF cnt[o] = 0 THEN del ELSE released
  /\ UNCHANGED <<m_iid, m_disposed, m_collecting, failed, nDoDispose, qi, regVars, accVars, traceVars>>

(***************************************************************************)
(* Object::AddInterface.  The argument is a Ptr<Object>, which owns a      *)
(* reference: the argument's count is positive.                            *)
(***************************************************************************)
\* the swap without a temporary: this's former successor is lost
SpliceNoTemp(self, o) ==
  [m_next EXCEPT ![self] = m_next[o]]

\* a swap with the link of the argument's successor: a splice at another point
SpliceAtNext(self, o) ==
  LET p == m_next[o]
      n1 == [m_next EXCEPT ![self] = m_next[p]]
  IN [n1 EXCEPT ![p] = m_next[self]]

\* lines 255-257: next = m_next; m_next = other->m_next; other->m_next = next
Splice(self, o) ==
  LET next == m_next[self]
      n1 == [m_next EXCEPT ![self] = m_next[o]]
  IN [n1 EXCEPT ![o] = next]

\* an aggregation that checks the disposed flag of the receiver alone
AddInterfaceOneCheck(self, o) ==
  /\ Idle
  /\ st[self] = "alive" /\ st[o] = "alive"
  /\ m_count[o] > 0
  /\ IF m_disposed[self]
        \/ ~CheckLoose(m_count, m_next, self) \/ ~CheckLoose(m_count, m_next, o)
     THEN /\ failed' = "AddInterface"
          /\ UNCHANGED m_next
     ELSE LET nxt == Splice(self, o)
          IN /\ m_next' = nxt
             /\ failed' = IF CheckLoose(m_count, nxt, self)
                             /\ CheckLoose(m_count, nxt, o)
                          THEN "none" ELSE "AddInterface"
  /\ UNCHANGED <<st, m_count, m_iid, m_disposed, m_collecting, released,
                 nDelete, nDoDispose, qi, regVars, accVars, traceVars>>

\* an aggregation that asserts the argument is outside the receiver's ring
AddInterfaceOtherRing(self, o) ==
  /\ Idle
  /\ st[self] = "alive" /\ st[o] = "alive"
  /\ m_count[o] > 0
  /\ IF m_disposed[self] \/ m_disposed[o]
        \/ ~CheckLoose(m_count, m_next, self) \/ ~CheckLoose(m_count, m_next, o)
        \/ o \in RingSet(m_next, self)
     THEN /\ failed' = "AddInterface"
          /\ UNCHANGED m_next
     ELSE LET nxt == Splice(self, o)
          IN /\ m_next' = nxt
             /\ failed' = IF CheckLoose(m_count, nxt, self)
                             /\ CheckLoose(m_count, nxt, o)
                          THEN "none" ELSE "AddInterface"
  /\ UNCHANGED <<st, m_count, m_iid, m_disposed, m_collecting, released,
                 nDelete, nDoDispose, qi, regVars, accVars, traceVars>>

AddInterface(self, o) ==
  /\ Idle
  /\ st[self] = "alive" /\ st[o] = "alive"
  /\ m_count[o] > 0
  /\ IF m_disposed[self] \/ m_disposed[o]
        \/ ~CheckLoose(m_count, m_next, self) \/ ~CheckLoose(m_count, m_next, o)
     THEN /\ failed' = "AddInterface"
          /\ UNCHANGED m_next
     ELSE LET nxt == Splice(self, o)
          IN /\ m_next' = nxt
             /\ failed' = IF CheckLoose(m_count, nxt, self)
                             /\ CheckLoose(m_count, nxt, o)
                          THEN "none" ELSE "AddInterface"
  /\ UNCHANGED <<st, m_count, m_iid, m_disposed, m_collecting, released,
                 nDelete, nDoDispose, qi, regVars, accVars, traceVars>>

(***************************************************************************)
(* Object::Dispose, with Object::DoDispose as the hook of every member.    *)
(* The walk stops at the first member whose NS_ASSERT (!m_disposed) fails. *)
(***************************************************************************)
\* a disposal of the receiver alone
DisposeSelfOnly(self) ==
  /\ Idle
  /\ st[self] = "alive"
  /\ nDoDispose' = [nDoDispose EXCEPT ![self] = IF m_disposed[self] THEN @ ELSE @ + 1]
  /\ m_disposed' = [m_disposed EXCEPT ![self] = TRUE]
  /\ failed' = IF m_disposed[self] THEN "Dispose" ELSE "none"
  /\ UNCHANGED <<st, m_count, m_iid, m_collecting, m_next, released, nDelete,
                 qi, regVars, accVars, traceVars>>

\* a disposal that also frees the ring it has disposed of
DisposeAndDelete(self) ==
  /\ Idle
  /\ st[self] = "alive"
  /\ LET ring == RingSet(m_next, self) IN
     /\ nDoDispose' = [p \in Obj |-> IF p \in ring THEN nDoDispose[p] + 1
                                     ELSE nDoDispose[p]]
     /\ m_disposed' = [p \in Obj |-> IF p \in ring THEN TRUE ELSE m_disposed[p]]
     /\ st' = [p \in Obj |-> IF p \in ring THEN "deleted" ELSE st[p]]
     /\ nDelete' = [p \in Obj |-> IF p \in ring THEN nDelete[p] + 1 ELSE nDelete[p]]
     /\ m_next' = [p \in Obj |-> IF p \in ring THEN Null ELSE m_next[p]]
     /\ failed' = IF \E m \in ring : m_disposed[m] THEN "Dispose" ELSE "none"
  /\ UNCHANGED <<m_count, m_iid, m_collecting, released, qi, regVars, accVars, traceVars>>

Dispose(self) ==
  /\ Idle
  /\ st[self] = "alive"
  /\ LET r == Ring(m_next, self)
         bad == {i \in 1..Len(r) : m_disposed[r[i]]}
         stop == IF bad = {} THEN Len(r) + 1
                 ELSE CHOOSE i \in bad : \A j \in bad : i <= j
         done == {r[i] : i \in 1..(stop - 1)}
     IN /\ nDoDispose' = [p \in Obj |->
                            IF p \in done THEN nDoDispose[p] + 1 ELSE nDoDispose[p]]
        /\ m_disposed' = [p \in Obj |-> IF p \in done THEN TRUE ELSE m_disposed[p]]
        /\ failed' = IF bad = {} THEN "none" ELSE "Dispose"
  /\ UNCHANGED <<st, m_count, m_iid, m_collecting, m_next, released, nDelete,
                 qi, regVars, accVars, traceVars>>

(***************************************************************************)
(* Object::QueryInterface: NS_ASSERT (CheckLoose ()), then the walk.       *)
(***************************************************************************)
QueryInterface(self, iid) ==
  /\ Idle
  /\ st[self] = "alive"
  /\ iid \in Iids
  /\ IF CheckLoose(m_count, m_next, self)
     THEN /\ qi' = [self |-> self, iid |-> iid, ret |-> DoQueryInterface(self, iid)]
          /\ UNCHANGED failed
     ELSE /\ failed' = "QueryInterface"
          /\ UNCHANGED qi
  /\ UNCHANGED <<st, m_count, m_iid, m_disposed, m_collecting, m_next,
                 released, nDelete, nDoDispose, regVars, accVars, traceVars>>

\* the caller takes the result of the call
QueryReturn ==
  /\ ~fatal
  /\ qi # qiNone
  /\ qi' = qiNone
  /\ UNCHANGED <<st, m_count, m_iid, m_disposed, m_collecting, m_next, failed,
                 released, nDelete, nDoDispose, regVars, accVars, traceVars>>

\* the types the objects of a life-cycle run are created with
LifeIids == {BaseAIid}
\* the types the objects of a query run are created with
QueryIids == {BaseAIid, DerivedAIid, BaseBIid}

(***************************************************************************)
(* Spec: construction, reference counting, aggregation and disposal.       *)
(***************************************************************************)
Next ==
  \/ \E o \in Obj, iid \in LifeIids : Create(o, iid)
  \/ \E o \in Obj : Ref(o)
  \/ \E o \in Obj : Unref(o)
  \/ \E self \in Obj, o \in Obj : AddInterface(self, o)
  \/ \E self \in Obj : Dispose(self)

Spec == Init /\ [][Next]_vars

(***************************************************************************)
(* SpecQuery: construction, aggregation, release and QueryInterface.       *)
(***************************************************************************)
NextQuery ==
  \/ \E o \in Obj, iid \in QueryIids : Create(o, iid)
  \/ \E o \in Obj : Unref(o)
  \/ \E self \in Obj, o \in Obj : AddInterface(self, o)
  \/ Idle /\ \E self \in Obj, iid \in Iids : QueryInterface(self, iid)
  \/ QueryReturn

SpecQuery == Init /\ [][NextQuery]_vars

(***************************************************************************)
(* Trace paths.  A path is the sequence of its `/`-separated elements; an  *)
(* element is the sequence of its pieces, the character `$` being a piece  *)
(* of its own, so that find ("$") and substr (1) act on it.                *)
(***************************************************************************)
\* number of elements a path may hold after its first
MaxTail == 1

Dollar(name) == <<"$", name>>
\* first elements: a selector for every registered name and for a name that
\* is not registered, a source name, and an element with `$` past its start
Firsts ==
  {Dollar(TestNames[u]) : u \in 1..Len(TestNames)}
    \cup {Dollar("Nope"), <<"basea-x">>, <<"x", "$", "BaseA">>}
Leaves == {<<"basea-x">>, <<"*">>}
RECURSIVE Tails(_)
Tails(n) ==
  IF n = 0 THEN {<<>>}
  ELSE Tails(n - 1) \cup {<<e>> \o t : e \in Leaves, t \in {x \in Tails(n - 1) : Len(x) = n - 1}}
Paths == {<<f>> \o t : f \in Firsts, t \in Tails(MaxTail)}

\* std::string::npos
npos == -1
\* std::string::find: the offset of the first occurrence, or npos
Find(element, c) ==
  LET at == {i \in 1..Len(element) : element[i] = c} IN
  IF at = {} THEN npos ELSE (CHOOSE i \in at : \A j \in at : i <= j) - 1

\* TraceResolver::GetElement: the first element of the path
GetElement(path) == Head(path)
\* TraceResolver::GetSubpath: the path without its first element
GetSubpath(path) == Tail(path)

\* UidManager::LookupByName: the uid of the name, 0 when it has none
UidLookupByName(name) ==
  IF \E u \in Iids : <<m_names[u]>> = name
  THEN CHOOSE u \in Iids : <<m_names[u]>> = name
  ELSE 0

(***************************************************************************)
(* InterfaceIdTraceResolver::ParseForInterface on the resolver bound to    *)
(* agg: the member selected, or the assertion that aborted.                *)
(***************************************************************************)
\* a selector resolved against the receiver alone, not its ring
ParseForInterfaceLocal(agg, path) ==
  LET element == GetElement(path) IN
  IF Find(element, "$") # 0 THEN [failed |-> "none", iface |-> Null]
  ELSE LET uid == UidLookupByName(Tail(element)) IN
       IF uid = 0 THEN [failed |-> "LookupByName", iface |-> Null]
       ELSE [failed |-> "none",
             iface |-> IF ClimbTo(m_iid[agg], uid) = uid THEN agg ELSE Null]

\* a failed lookup of the selected member taken for the bound object
ParseForInterfaceDefault(agg, path) ==
  LET element == GetElement(path) IN
  IF Find(element, "$") # 0 THEN [failed |-> "none", iface |-> Null]
  ELSE LET uid == UidLookupByName(Tail(element)) IN
       IF uid = 0 THEN [failed |-> "LookupByName", iface |-> Null]
       ELSE LET found == DoQueryInterface(agg, uid) IN
            [failed |-> "none", iface |-> IF found = Null THEN agg ELSE found]

\* a path without a selector taken to select the bound object
ParseForInterfaceSelf(agg, path) ==
  LET element == GetElement(path) IN
  IF Find(element, "$") # 0 THEN [failed |-> "none", iface |-> agg]
  ELSE LET uid == UidLookupByName(Tail(element)) IN
       IF uid = 0 THEN [failed |-> "LookupByName", iface |-> Null]
       ELSE [failed |-> "none", iface |-> DoQueryInterface(agg, uid)]

\* a selector whose name has no uid taken for a path that selects nothing
ParseForInterfaceLenient(agg, path) ==
  LET element == GetElement(path) IN
  IF Find(element, "$") # 0 THEN [failed |-> "none", iface |-> Null]
  ELSE LET uid == UidLookupByName(Tail(element)) IN
       IF uid = 0 THEN [failed |-> "none", iface |-> Null]
       ELSE IF ~CheckLoose(m_count, m_next, agg)
            THEN [failed |-> "QueryInterface", iface |-> Null]
            ELSE [failed |-> "none", iface |-> DoQueryInterface(agg, uid)]

ParseForInterface(agg, path) ==
  LET element == GetElement(path)
      dollar_pos == Find(element, "$")
  IN IF dollar_pos # 0 THEN [failed |-> "none", iface |-> Null]
     ELSE LET interfaceName == Tail(element)
              uid == UidLookupByName(interfaceName)
          IN IF uid = 0 THEN [failed |-> "LookupByName", iface |-> Null]
             ELSE IF ~CheckLoose(m_count, m_next, agg)
                  THEN [failed |-> "QueryInterface", iface |-> Null]
                  ELSE [failed |-> "none", iface |-> DoQueryInterface(agg, uid)]

(***************************************************************************)
(* InterfaceIdTraceResolver::Connect and ::Disconnect on the resolver that *)
(* agg->GetTraceResolver () made.  The call into the selected member's own *)
(* resolver (a virtual GetTraceResolver) is recorded in tr.calls.          *)
(***************************************************************************)
Resolve(op, agg, path) ==
  /\ Idle
  /\ st[agg] = "alive"
  /\ path \in Paths
  /\ IF ~CheckLoose(m_count, m_next, agg)
     THEN failed' = "GetTraceResolver" /\ UNCHANGED tr
     ELSE LET p == ParseForInterface(agg, path) IN
          /\ failed' = p.failed
          /\ tr' = [op |-> op, agg |-> agg, path |-> path,
                    calls |-> IF p.iface # Null
                              THEN <<[op |-> op, target |-> p.iface,
                                      path |-> GetSubpath(path)]>>
                              ELSE <<>>]
  /\ UNCHANGED <<st, m_count, m_iid, m_disposed, m_collecting, m_next,
                 released, nDelete, nDoDispose, qi, regVars, accVars, stack, asked, delegated>>

Connect(agg, path) == Resolve("Connect", agg, path)
Disconnect(agg, path) == Resolve("Disconnect", agg, path)

\* the caller goes on after the call
TraceReturn ==
  /\ ~fatal
  /\ tr # trNone
  /\ tr' = trNone
  /\ UNCHANGED <<objVars, regVars, accVars, stack, asked, delegated>>

(***************************************************************************)
(* SpecTrace: construction, aggregation and path resolution.               *)
(***************************************************************************)
NextTrace ==
  \/ \E o \in Obj, iid \in QueryIids : Create(o, iid)
  \/ \E self \in Obj, o \in Obj : AddInterface(self, o)
  \/ Idle /\ \E agg \in Obj, path \in Paths : Connect(agg, path)
  \/ Idle /\ \E agg \in Obj, path \in Paths : Disconnect(agg, path)
  \/ TraceReturn

SpecTrace == Init /\ [][NextTrace]_vars

(***************************************************************************)
(* Object::DoTraceAll, one activation per entry of the stack.  Every       *)
(* member's resolver ends in InterfaceIdTraceResolver::TraceAll, which     *)
(* calls DoTraceAll on the member it is bound to.                          *)
(***************************************************************************)
\* the guard read on the receiver alone
CollectingSelf(self) == m_collecting[self]

\* lines 392-400: some member of the receiver's ring is collecting
Collecting(self) == \E m \in RingSet(m_next, self) : m_collecting[m]

Top == stack[Len(stack)]
\* the innermost activation returns: its caller moves on to the next member
PopAndAdvance ==
  LET rest == SubSeq(stack, 1, Len(stack) - 1) IN
  IF rest = <<>> THEN rest
  ELSE [rest EXCEPT ![Len(rest)].cur = m_next[@]]

\* a client asks the resolver of member o to enumerate
TraceAllCall(o) ==
  /\ Idle
  /\ st[o] = "alive"
  /\ IF CheckLoose(m_count, m_next, o)
     THEN /\ stack' = <<[self |-> o, pc |-> "enter", cur |-> Null]>>
          /\ asked' = [asked EXCEPT ![o] = 1]
          /\ UNCHANGED failed
     ELSE /\ failed' = "GetTraceResolver"
          /\ UNCHANGED <<stack, asked>>
  /\ UNCHANGED <<st, m_count, m_iid, m_disposed, m_collecting, m_next,
                 released, nDelete, nDoDispose, qi, regVars, accVars, tr, delegated>>

\* lines 392-402: return when the ring is collecting, else set the guard
TraceAllEnter ==
  /\ ~fatal
  /\ stack # <<>> /\ Top.pc = "enter"
  /\ IF Collecting(Top.self)
     THEN /\ stack' = PopAndAdvance
          /\ UNCHANGED m_collecting
     ELSE /\ m_collecting' = [m_collecting EXCEPT ![Top.self] = TRUE]
          /\ stack' = [stack EXCEPT ![Len(stack)] =
                         [self |-> Top.self, pc |-> "walk", cur |-> m_next[Top.self]]]
  /\ UNCHANGED <<st, m_count, m_iid, m_disposed, m_next, failed,
                 released, nDelete, nDoDispose, qi, regVars, accVars, tr, asked, delegated>>

\* line 408: current->GetTraceResolver ()->TraceAll (os, context)
TraceAllDelegate ==
  /\ ~fatal
  /\ stack # <<>> /\ Top.pc = "walk" /\ Top.cur # Top.self
  /\ IF CheckLoose(m_count, m_next, Top.cur)
     THEN /\ asked' = [asked EXCEPT ![Top.cur] = @ + 1]
          /\ delegated' = Append(delegated, [op |-> "TraceAll", from |-> Top.self,
                                             target |-> Top.cur, path |-> <<>>])
          /\ stack' = Append(stack, [self |-> Top.cur, pc |-> "enter", cur |-> Null])
          /\ UNCHANGED failed
     ELSE /\ failed' = "GetTraceResolver"
          /\ UNCHANGED <<stack, asked, delegated>>
  /\ UNCHANGED <<st, m_count, m_iid, m_disposed, m_collecting, m_next,
                 released, nDelete, nDoDispose, qi, regVars, accVars, tr>>

\* line 412: the walk is back at the receiver: clear the guard and return
TraceAllFinish ==
  /\ ~fatal
  /\ stack # <<>> /\ Top.pc = "walk" /\ Top.cur = Top.self
  /\ m_collecting' = [m_collecting EXCEPT ![Top.self] = FALSE]
  /\ stack' = PopAndAdvance
  /\ UNCHANGED <<st, m_count, m_iid, m_disposed, m_next, failed,
                 released, nDelete, nDoDispose, qi, regVars, accVars, tr, asked, delegated>>

\* the client goes on after the call
TraceAllReturn ==
  /\ ~fatal
  /\ stack = <<>> /\ asked # [o \in Obj |-> 0]
  /\ asked' = [o \in Obj |-> 0]
  /\ delegated' = <<>>
  /\ UNCHANGED <<objVars, regVars, accVars, tr, stack>>

TraceAllStep == TraceAllEnter \/ TraceAllDelegate \/ TraceAllFinish

(***************************************************************************)
(* SpecEnum: construction, aggregation, release and enumeration;           *)
(* SpecEnumLive adds that a call in progress goes on (the code runs every  *)
(* call to completion on one thread).                                      *)
(***************************************************************************)
NextEnum ==
  \/ \E o \in Obj, iid \in LifeIids : Create(o, iid)
  \/ \E o \in Obj : Unref(o)
  \/ \E self \in Obj, o \in Obj : AddInterface(self, o)
  \/ \E o \in Obj : TraceAllCall(o)
  \/ TraceAllEnter
  \/ TraceAllDelegate
  \/ TraceAllFinish
  \/ TraceAllReturn

SpecEnum == Init /\ [][NextEnum]_vars
SpecEnumLive == SpecEnum /\ WF_vars(TraceAllStep)

(***************************************************************************)
(* Object::DoCollectSources, one activation per entry of the stack, each   *)
(* with the member and the type the two nested loops are at and the path   *)
(* it was called with.  Every member's resolver ends in                    *)
(* InterfaceIdTraceResolver::CollectSources, which calls DoCollectSources  *)
(* on the member it is bound to.                                           *)
(***************************************************************************)
\* the paths a client starts a collection with
CollectPaths == {<<>>, << <<"ctx">> >>}

\* the innermost activation returns and its caller leaves the member's chain
PopAndLeave ==
  LET rest == SubSeq(stack, 1, Len(stack) - 1) IN
  IF rest = <<>> THEN rest
  ELSE [rest EXCEPT ![Len(rest)].iid = ObjectIid]

\* the innermost activation returns: cur = InterfaceId::LookupParent (cur)
PopAndClimb ==
  LET rest == SubSeq(stack, 1, Len(stack) - 1) IN
  IF rest = <<>> THEN rest
  ELSE [rest EXCEPT ![Len(rest)].iid = LookupParent(@)]

\* a client asks the resolver of member o to collect its sources under path
CollectSourcesCall(o, path) ==
  /\ Idle
  /\ st[o] = "alive"
  /\ IF CheckLoose(m_count, m_next, o)
     THEN /\ stack' = <<[self |-> o, pc |-> "center", cur |-> Null, iid |-> 0,
                          path |-> path]>>
          /\ asked' = [asked EXCEPT ![o] = 1]
          /\ UNCHANGED failed
     ELSE /\ failed' = "GetTraceResolver"
          /\ UNCHANGED <<stack, asked>>
  /\ UNCHANGED <<st, m_count, m_iid, m_disposed, m_collecting, m_next,
                 released, nDelete, nDoDispose, qi, regVars, accVars, tr, delegated>>

\* lines 356-368: return when the ring is collecting, else set the guard
CollectEnter ==
  /\ ~fatal
  /\ stack # <<>> /\ Top.pc = "center"
  /\ IF Collecting(Top.self)
     THEN /\ stack' = PopAndClimb
          /\ UNCHANGED m_collecting
     ELSE /\ m_collecting' = [m_collecting EXCEPT ![Top.self] = TRUE]
          /\ stack' = [stack EXCEPT ![Len(stack)] =
                         [self |-> Top.self, pc |-> "cwalk", cur |-> m_next[Top.self],
                          iid |-> m_iid[m_next[Top.self]], path |-> Top.path]]
  /\ UNCHANGED <<st, m_count, m_iid, m_disposed, m_next, failed,
                 released, nDelete, nDoDispose, qi, regVars, accVars, tr, asked, delegated>>

\* lines 374-381: current->GetTraceResolver ()->CollectSources (fullpath, ...)
CollectDelegate ==
  /\ ~fatal
  /\ stack # <<>> /\ Top.pc = "cwalk" /\ Top.cur # Top.self /\ Top.iid # ObjectIid
  /\ IF CheckLoose(m_count, m_next, Top.cur)
     THEN LET fullpath == Append(Top.path, Dollar(m_names[Top.iid])) IN
          /\ asked' = [asked EXCEPT ![Top.cur] = @ + 1]
          /\ delegated' = Append(delegated, [op |-> "CollectSources", from |-> Top.self,
                                             target |-> Top.cur, path |-> fullpath])
          /\ stack' = Append(stack, [self |-> Top.cur, pc |-> "center", cur |-> Null,
                                     iid |-> 0, path |-> fullpath])
          /\ UNCHANGED failed
     ELSE /\ failed' = "GetTraceResolver"
          /\ UNCHANGED <<stack, asked, delegated>>
  /\ UNCHANGED <<st, m_count, m_iid, m_disposed, m_collecting, m_next,
                 released, nDelete, nDoDispose, qi, regVars, accVars, tr>>

\* lines 374, 384: the chain is at the root: current = current->m_next
CollectNextMember ==
  /\ ~fatal
  /\ stack # <<>> /\ Top.pc = "cwalk" /\ Top.cur # Top.self /\ Top.iid = ObjectIid
  /\ stack' = [stack EXCEPT ![Len(stack)].cur = m_next[Top.cur],
                            ![Len(stack)].iid = m_iid[m_next[Top.cur]]]
  /\ UNCHANGED <<st, m_count, m_iid, m_disposed, m_collecting, m_next, failed,
                 released, nDelete, nDoDispose, qi, regVars, accVars, tr, asked, delegated>>

\* a walk that leaves the guard set when it returns
CollectFinishKeep ==
  /\ ~fatal
  /\ stack # <<>> /\ Top.pc = "cwalk" /\ Top.cur = Top.self
  /\ stack' = PopAndClimb
  /\ UNCHANGED <<st, m_count, m_iid, m_disposed, m_collecting, m_next, failed,
                 released, nDelete, nDoDispose, qi, regVars, accVars, tr, asked, delegated>>

\* line 387: the walk is back at the receiver: clear the guard and return
CollectFinish ==
  /\ ~fatal
  /\ stack # <<>> /\ Top.pc = "cwalk" /\ Top.cur = Top.self
  /\ m_collecting' = [m_collecting EXCEPT ![Top.self] = FALSE]
  /\ stack' = PopAndClimb
  /\ UNCHANGED <<st, m_count, m_iid, m_disposed, m_next, failed,
                 released, nDelete, nDoDispose, qi, regVars, accVars, tr, asked, delegated>>

(***************************************************************************)
(* SpecEnumAll: construction, aggregation, release and both enumerations,  *)
(* over objects of several types.                                          *)
(***************************************************************************)
\* the types the objects of an enumeration run are created with
EnumIids == {BaseAIid, DerivedAIid}

NextEnumAll ==
  \/ \E o \in Obj, iid \in EnumIids : Create(o, iid)
  \/ \E o \in Obj : Unref(o)
  \/ \E self \in Obj, o \in Obj : AddInterface(self, o)
  \/ \E o \in Obj : TraceAllCall(o)
  \/ TraceAllEnter
  \/ TraceAllDelegate
  \/ TraceAllFinish
  \/ \E o \in Obj, path \in CollectPaths : CollectSourcesCall(o, path)
  \/ CollectEnter
  \/ CollectDelegate
  \/ CollectNextMember
  \/ CollectFinish
  \/ TraceAllReturn

SpecEnumAll == Init /\ [][NextEnumAll]_vars

(***************************************************************************)
(* attribute-accessor-helper.h: AccessorHelper<T,U>::Set and ::Get, and    *)
(* the DoSet and DoGet of the adapters MakeAccessorHelper builds.          *)
(***************************************************************************)
\* val.DynCast<const U*> () != 0
DynCastValue(val) == a_box[val].cls = "V"
\* dynamic_cast<T *> (object) != 0
DynCastObject(object) == a_obj[object].cls \in {"T", "TDerived"}

\* U (x): the conversion to the member's type
ToU(x) == x % UValues
\* V::Set (x): the value the box holds afterwards
ToV(x) == x

\* a (getter, setter) overload that keeps its first argument alone
BuiltFirst(shape) == IF shape = "pairGS" THEN "getter" ELSE shape

\* DoMakeAccessorHelperTwo (getter, setter) builds the (setter, getter) adapter
Built(shape) == IF shape = "pairGS" THEN "pairSG" ELSE shape

\* a DoSet that writes the member whatever the adapter was built from
DoSetAny(shape, object, val) ==
  [ret |-> TRUE, m |-> ToU(a_box[val].v)]

\* DoSet of the adapter: [ret, m], m the member afterwards
DoSet(shape, object, val) ==
  IF Built(shape) = "getter"
  THEN [ret |-> FALSE, m |-> a_obj[object].m]
  ELSE [ret |-> TRUE, m |-> ToU(a_box[val].v)]

\* a DoGet that reports success without writing the boxed value
DoGetNothing(shape, object, val) ==
  [ret |-> Built(shape) # "setter", v |-> a_box[val].v]

\* DoGet of the adapter: [ret, v], v the boxed value afterwards
DoGet(shape, object, val) ==
  IF Built(shape) = "setter"
  THEN [ret |-> FALSE, v |-> a_box[val].v]
  ELSE [ret |-> TRUE, v |-> ToV(a_obj[object].m)]

\* a Set that takes the object for a T without the checked cast
SetUnchecked(shape, object, val) ==
  /\ shape \in Shapes
  /\ LET r == IF ~DynCastValue(val)
              THEN [ret |-> FALSE, m |-> a_obj[object].m]
              ELSE DoSet(shape, object, val)
     IN /\ a_obj' = [a_obj EXCEPT ![object].m = r.m]
        /\ a_last' = [op |-> "Set", shape |-> shape, obj |-> object, box |-> val,
                      ret |-> r.ret]
  /\ UNCHANGED <<a_box, objVars, regVars, traceVars>>

\* AccessorHelper::Set (lines 51-63)
Set(shape, object, val) ==
  /\ shape \in Shapes
  /\ LET r == IF ~DynCastValue(val)
              THEN [ret |-> FALSE, m |-> a_obj[object].m]
              ELSE IF ~DynCastObject(object)
              THEN [ret |-> FALSE, m |-> a_obj[object].m]
              ELSE DoSet(shape, object, val)
     IN /\ a_obj' = [a_obj EXCEPT ![object].m = r.m]
        /\ a_last' = [op |-> "Set", shape |-> shape, obj |-> object, box |-> val,
                      ret |-> r.ret]
  /\ UNCHANGED <<a_box, objVars, regVars, traceVars>>

\* AccessorHelper::Get (lines 65-77)
Get(shape, object, val) ==
  /\ shape \in Shapes
  /\ LET r == IF ~DynCastValue(val)
              THEN [ret |-> FALSE, v |-> a_box[val].v]
              ELSE IF ~DynCastObject(object)
              THEN [ret |-> FALSE, v |-> a_box[val].v]
              ELSE DoGet(shape, object, val)
     IN /\ a_box' = [a_box EXCEPT ![val].v = r.v]
        /\ a_last' = [op |-> "Get", shape |-> shape, obj |-> object, box |-> val,
                      ret |-> r.ret]
  /\ UNCHANGED <<a_obj, objVars, regVars, traceVars>>

\* the client stores a value in a boxed value
BoxStore(val, x) ==
  /\ a_box' = [a_box EXCEPT ![val].v = x]
  /\ a_last' = [op |-> "Store", shape |-> "none", obj |-> 0, box |-> val, ret |-> TRUE]
  /\ UNCHANGED <<a_obj, objVars, regVars, traceVars>>

\* the client writes the member of an object directly
MemberStore(object, x) ==
  /\ a_obj' = [a_obj EXCEPT ![object].m = x]
  /\ a_last' = [op |-> "Store", shape |-> "none", obj |-> object, box |-> 0, ret |-> TRUE]
  /\ UNCHANGED <<a_box, objVars, regVars, traceVars>>

(***************************************************************************)
(* SpecAcc: accessor calls on the three objects and two boxed values.      *)
(***************************************************************************)
NextAcc ==
  \/ \E shape \in Shapes, object \in AObj, val \in ABox : Set(shape, object, val)
  \/ \E shape \in Shapes, object \in AObj, val \in ABox : Get(shape, object, val)
  \/ \E val \in ABox, x \in 0..MaxVal : BoxStore(val, x)
  \/ \E object \in AObj, x \in 0..(UValues - 1) : MemberStore(object, x)

SpecAcc == Init /\ [][NextAcc]_vars

(***************************************************************************)
(* Object::Unref and Object::MaybeDelete in two steps, for a ring whose     *)
(* members' destructors call back into the ring: the decrement to zero and *)
(* the first walk, which finds no count; then the second walk, which runs  *)
(* `delete` on every member.  Between the two the ring is intact and every *)
(* count in it is zero.                                                    *)
(***************************************************************************)
\* every member of o's ring is alive and has a zero count
ZeroRing(o) ==
  /\ st[o] = "alive"
  /\ \A m \in RingSet(m_next, o) : st[m] = "alive" /\ m_count[m] = 0

\* Unref brings the last count of the ring to zero; lines 329-338 return nothing
MaybeDeleteEnter(o) ==
  /\ Idle
  /\ st[o] = "alive"
  /\ m_count[o] = 1
  /\ \A m \in RingSet(m_next, o) \ {o} : m_count[m] = 0
  /\ m_count' = [m_count EXCEPT ![o] = 0]
  /\ UNCHANGED <<st, m_iid, m_disposed, m_collecting, m_next, failed, released,
                 nDelete, nDoDispose, qi, regVars, accVars, traceVars>>

\* lines 342-349: the second walk, from the member the call is on
MaybeDeleteFinish(o) ==
  /\ Idle
  /\ ZeroRing(o)
  /\ LET del == MaybeDelete(m_count, o) IN
     /\ st' = [p \in Obj |-> IF p \in Range(del) THEN "deleted" ELSE st[p]]
     /\ m_next' = [p \in Obj |-> IF p \in Range(del) THEN Null ELSE m_next[p]]
     /\ nDelete' = [p \in Obj |-> nDelete[p] + Occurrences(del, p)]
     /\ released' = del
  /\ UNCHANGED <<m_count, m_iid, m_disposed, m_collecting, failed, nDoDispose, qi,
                 regVars, accVars, traceVars>>

\* the paths of a run with rings at zero
LoosePaths == {<<Dollar("BaseA")>>, <<Dollar("BaseB"), <<"baseb-x">> >>}

(***************************************************************************)
(* SpecLoose: construction, aggregation, release in one and in two steps,  *)
(* and the calls that assert CheckLoose.                                   *)
(***************************************************************************)
NextLoose ==
  \/ \E o \in Obj, iid \in LifeIids : Create(o, iid)
  \/ \E o \in Obj : Unref(o)
  \/ \E o \in Obj : MaybeDeleteEnter(o)
  \/ \E o \in Obj : MaybeDeleteFinish(o)
  \/ \E self \in Obj, o \in Obj : AddInterface(self, o)
  \/ Idle /\ \E self \in Obj, iid \in Iids : QueryInterface(self, iid)
  \/ QueryReturn
  \/ Idle /\ \E agg \in Obj, path \in LoosePaths : Connect(agg, path)
  \/ Idle /\ \E agg \in Obj, path \in LoosePaths : Disconnect(agg, path)
  \/ TraceReturn

SpecLoose == Init /\ [][NextLoose]_vars

(***************************************************************************)
(* The registry while it is built: MakeObjectInterfaceId once, then        *)
(* MakeInterfaceId with a registered parent.  IidManager::Allocate         *)
(* (uid-manager) hands out the next unused uid, from 1 on.                 *)
(***************************************************************************)
\* largest uid the registry hands out (0xffff in the code)
MaxIid == 5
\* the names types are registered under, besides "Object"
RegNames == {"BaseA", "DerivedA", "BaseB", "DerivedB", "Extra"}

\* IidManager::Allocate: the uid the name gets
Allocate(name) == Len(m_names) + 1

\* a SetParent that starts from an empty vector
SetParentFresh(child, parent) ==
  [i \in 0..child |-> IF i = child THEN parent ELSE 0]

\* IidTree::SetParent: m_parents.resize (child+1); m_parents[child] = parent
SetParent(child, parent) ==
  [i \in 0..child |->
     IF i = child THEN parent
     ELSE IF i \in DOMAIN m_parents THEN m_parents[i] ELSE 0]

InitEmptyRegistry ==
  /\ m_parents = [i \in {} |-> 0]
  /\ m_names = <<>>

\* the first use of Object::iid ()
MakeObjectInterfaceId ==
  /\ m_names = <<>>
  /\ LET iid == Allocate("Object") IN
     /\ m_names' = Append(m_names, "Object")
     /\ m_parents' = SetParent(iid, iid)
  /\ UNCHANGED <<objVars, traceVars, accVars>>

MakeInterfaceId(name, parent) ==
  /\ parent \in Iids
  /\ \A u \in Iids : m_names[u] # name
  /\ Len(m_names) < MaxIid
  /\ LET uid == Allocate(name) IN
     /\ m_names' = Append(m_names, name)
     /\ m_parents' = SetParent(uid, parent)
  /\ UNCHANGED <<objVars, traceVars, accVars>>

NextReg ==
  \/ MakeObjectInterfaceId
  \/ \E name \in RegNames, parent \in 1..MaxIid : MakeInterfaceId(name, parent)

InitReg == InitObjects /\ InitEmptyRegistry /\ InitTrace /\ InitAcc

SpecReg == InitReg /\ [][NextReg]_vars

(***************************************************************************)
(* Properties of the life cycle (Spec).                                    *)
(***************************************************************************)
\* the members of o's ring other than o
Others(o) == RingSet(m_next, o) \ {o}

\* C1 (group liveness): a step deletes a member only when, after the step,
\* every member of its ring has a zero count; and a decrement that brings a
\* member to zero while another member of its ring still has a count deletes
\* nothing.
C1_Step ==
  \A o \in Obj :
    /\ (st[o] = "alive" /\ st'[o] = "deleted")
         => \A m \in RingSet(m_next, o) : m_count'[m] = 0
    /\ (st[o] = "alive" /\ m_count[o] = 1 /\ m_count'[o] = 0
          /\ \E m \in Others(o) : m_count[m] > 0)
         => (st' = st /\ nDelete' = nDelete /\ m_next' = m_next)
C1_GroupLiveness == [][C1_Step]_vars

\* a member at zero lives on in a ring that another member keeps referenced
C1_Witness ==
  \E o \in Alive : m_count[o] = 0 /\ \E m \in Others(o) : st[m] = "alive" /\ m_count[m] > 0

\* C2 (whole-ring release): the decrement that brings the last counted member
\* of a ring to zero deletes every member of the ring, each exactly once, in
\* that step; no alive member links to a deleted one, and no member is ever
\* deleted twice.
C2_Step ==
  \A o \in Obj :
    (st[o] = "alive" /\ m_count[o] = 1 /\ m_count'[o] = 0
       /\ \A m \in Others(o) : m_count[m] = 0)
      => /\ \A m \in RingSet(m_next, o) :
              st[m] = "alive" /\ st'[m] = "deleted" /\ nDelete'[m] = nDelete[m] + 1
         /\ Range(released') = RingSet(m_next, o)
C2_Inv ==
  \A o \in Obj :
    /\ nDelete[o] <= 1
    /\ (st[o] = "deleted") <=> (nDelete[o] = 1)
    /\ st[o] = "alive" => \A m \in RingSet(m_next, o) : st[m] = "alive"
C2_WholeRingRelease == []C2_Inv /\ [][C2_Step]_vars

\* a ring of several members was released by one call
C2_Witness ==
  /\ Len(released) >= 2
  /\ \A i \in 1..Len(released) : st[released[i]] = "deleted"

\* the successor relation of the alive objects is a set of disjoint cycles
IsCycle(o) ==
  LET r == Ring(m_next, o) IN
    /\ Cardinality(Range(r)) = Len(r)
    /\ Range(r) \subseteq Alive
    /\ m_next[r[Len(r)]] = o
DisjointRings(a, b) == RingSet(m_next, a) \cap RingSet(m_next, b) = {}

\* C3 (ring closure): a fresh object is a one-member cycle; the successor
\* links of the alive objects always form disjoint cycles; and AddInterface on
\* two disjoint rings leaves one cycle whose members are exactly the members of
\* the two former rings, every other ring being left as it was.
C3_Inv ==
  /\ \A o \in Alive : IsCycle(o)
  /\ \A a, b \in Alive : m_next[a] = m_next[b] => a = b
C3_Step ==
  /\ \A o \in Obj : (st[o] = "unborn" /\ st'[o] = "alive") => m_next'[o] = o
  /\ \A a, b \in Obj :
       (failed' = "none" /\ m_count' = m_count /\ DisjointRings(a, b)
          /\ AddInterface(a, b))
         => LET union == RingSet(m_next, a) \cup RingSet(m_next, b)
                ra == Ring(m_next', a)
            IN /\ Range(ra) = union
               /\ Len(ra) = Cardinality(union)
               /\ m_next'[ra[Len(ra)]] = a
               /\ RingSet(m_next', b) = union
               /\ \A c \in Alive \ union : Ring(m_next', c) = Ring(m_next, c)
C3_RingClosure == []C3_Inv /\ [][C3_Step]_vars

\* a ring of three, which only a merge of a ring of two with another ring makes
C3_Witness ==
  \E o \in Alive : ~fatal /\ Cardinality(RingSet(m_next, o)) = 3 /\ IsCycle(o)

\* C6 (disposal is once and ring-wide): Dispose on a member of an undisposed
\* ring runs the DoDispose hook of every member exactly once and marks every
\* member disposed; Dispose on a member of a disposed ring aborts without
\* running any hook; no member's hook ever runs twice.
C6_Inv ==
  \A o \in Obj :
    /\ nDoDispose[o] <= 1
    /\ m_disposed[o] <=> (nDoDispose[o] = 1)
C6_Step ==
  \A self \in Obj :
    Dispose(self)
      => IF \A m \in RingSet(m_next, self) : ~m_disposed[m]
         THEN /\ failed' = "none"
              /\ \A m \in RingSet(m_next, self) :
                   m_disposed'[m] /\ nDoDispose'[m] = nDoDispose[m] + 1
              /\ \A m \in Obj \ RingSet(m_next, self) :
                   m_disposed'[m] = m_disposed[m] /\ nDoDispose'[m] = nDoDispose[m]
         ELSE /\ failed' = "Dispose"
              /\ (\A m \in RingSet(m_next, self) : m_disposed[m])
                   => nDoDispose' = nDoDispose
C6_DisposeOnce == []C6_Inv /\ [][C6_Step]_vars

\* a second Dispose on a disposed ring of several members has aborted
C6_Witness ==
  /\ failed = "Dispose"
  /\ \E o \in Alive :
       /\ Cardinality(RingSet(m_next, o)) >= 2
       /\ \A m \in RingSet(m_next, o) : m_disposed[m] /\ nDoDispose[m] = 1

(***************************************************************************)
(* Properties of QueryInterface (SpecQuery).                               *)
(***************************************************************************)
\* a type and its ancestors, read off the parent table
RECURSIVE Lineage(_)
Lineage(t) ==
  IF m_parents[t] = t THEN {t} ELSE {t} \cup Lineage(m_parents[t])

\* the members of the receiver's ring whose type or ancestor is the queried type
Matching(self, iid) == {m \in RingSet(m_next, self) : iid \in Lineage(m_iid[m])}

\* C4: a query for the type, or an ancestor of the type, of any member of the
\* receiver's ring, from any member, returns a member of that ring whose type
\* or ancestor is the queried type.
C4_QueryFinds ==
  (qi.self # Null /\ Matching(qi.self, qi.iid) # {})
    => /\ qi.ret # Null
       /\ qi.ret \in Matching(qi.self, qi.iid)

\* a query from one member found another member through an ancestor type
C4_Witness ==
  /\ qi.self # Null /\ qi.ret # Null
  /\ qi.ret # qi.self
  /\ qi.iid # m_iid[qi.ret]
  /\ qi.iid # ObjectIid

\* C5: a query for a type that is neither the type nor an ancestor of the type
\* of any member of the receiver's ring returns null, and the query does not
\* abort.
C5_QueryMisses ==
  /\ failed # "QueryInterface"
  /\ (qi.self # Null /\ Matching(qi.self, qi.iid) = {}) => qi.ret = Null

\* a query for DerivedA returned null on a ring of several members holding BaseA
C5_Witness ==
  /\ qi.self # Null /\ qi.ret = Null
  /\ qi.iid = DerivedAIid
  /\ Cardinality(RingSet(m_next, qi.self)) >= 2
  /\ \E m \in RingSet(m_next, qi.self) : m_iid[m] = BaseAIid

(***************************************************************************)
(* Properties of path resolution (SpecTrace).                              *)
(***************************************************************************)
\* the call in flight selects the registered type u
Selects(u) == tr.op # "none" /\ GetElement(tr.path) = <<"$", m_names[u]>>

\* C7: Connect or Disconnect with a first element `$TypeName`, TypeName the
\* type or an ancestor of the type of some member of the bound object's ring,
\* makes exactly one call, of the same kind, into the resolver of the member
\* QueryInterface (TypeName) returns from the bound object, with the path less
\* its first element.
C7_SelectorResolves ==
  \A u \in Iids :
    (Selects(u) /\ Matching(tr.agg, u) # {})
      => /\ failed = "none"
         /\ Len(tr.calls) = 1
         /\ tr.calls[1].op = tr.op
         /\ tr.calls[1].target = DoQueryInterface(tr.agg, u)
         /\ tr.calls[1].target \in Matching(tr.agg, u)
         /\ <<GetElement(tr.path)>> \o tr.calls[1].path = tr.path

\* `$BaseA` followed by a source name resolved, from another member, on a
\* DerivedA member
C7_Witness ==
  /\ tr.op = "Connect" /\ Len(tr.path) = 2 /\ Len(tr.calls) = 1
  /\ GetElement(tr.path) = <<"$", "BaseA">>
  /\ tr.calls[1].target # tr.agg
  /\ m_iid[tr.calls[1].target] = DerivedAIid

\* C8: Connect or Disconnect with a first element `$TypeName`, TypeName a
\* registered type that is neither the type nor an ancestor of the type of any
\* member of the bound ring, calls no resolver, does not abort and changes no
\* object.
C8_Inv ==
  \A u \in Iids :
    (Selects(u) /\ Matching(tr.agg, u) = {}) => (tr.calls = <<>> /\ failed = "none")
C8_Step ==
  \A u \in Iids :
    (tr = trNone /\ tr'.op # "none"
       /\ GetElement(tr'.path) = <<"$", m_names[u]>> /\ Matching(tr'.agg, u) = {})
      => /\ failed' = "none" /\ tr'.calls = <<>>
         /\ UNCHANGED <<st, m_count, m_iid, m_disposed, m_collecting, m_next,
                        released, nDelete, nDoDispose, regVars, accVars, stack, asked,
                        delegated>>
C8_UnresolvedNoOp == []C8_Inv /\ [][C8_Step]_vars

\* `$DerivedB` met no member of a ring of several members
C8_Witness ==
  /\ tr.op = "Disconnect" /\ failed = "none" /\ tr.calls = <<>>
  /\ GetElement(tr.path) = <<"$", "DerivedB">>
  /\ Cardinality(RingSet(m_next, tr.agg)) >= 2

(***************************************************************************)
(* Properties of enumeration (SpecEnumLive).                               *)
(***************************************************************************)
\* C9: a TraceAll call on a ring whose members' resolvers call back into the
\* ring ends, and while it runs no member's resolver is asked to enumerate
\* more than once.
C9_AskedOnce == \A o \in Obj : asked[o] <= 1
C9_TraceAllTerminates == []C9_AskedOnce /\ ((stack # <<>>) ~> (stack = <<>>))

\* a call on a ring of three has ended, having asked every member once, each
\* of the other two having called back into the ring
C9_Witness ==
  /\ stack = <<>> /\ ~fatal
  /\ \E o \in Alive :
       /\ Cardinality(RingSet(m_next, o)) = 3
       /\ \A m \in RingSet(m_next, o) : asked[m] = 1 /\ ~m_collecting[m]

(***************************************************************************)
(* Properties of the accessor adapters (SpecAcc).                          *)
(***************************************************************************)
\* the boxed value is not a V, or the object is not a T
Mismatch(object, val) ==
  BoxClass[val] # "V" \/ ObjClass[object] \notin {"T", "TDerived"}

\* C10: for every adapter, a Set or Get whose boxed value is not of the value
\* type, or whose object is not of the owner type, returns false and changes
\* neither the object nor the boxed value; a call that returns true or changes
\* either has passed both casts.
C10_Step ==
  LET c == a_last' IN
  (c.op \in {"Set", "Get"})
    => /\ Mismatch(c.obj, c.box)
            => (c.ret = FALSE /\ a_obj' = a_obj /\ a_box' = a_box)
       /\ (c.ret = TRUE \/ a_obj' # a_obj \/ a_box' # a_box)
            => ~Mismatch(c.obj, c.box)
C10_AllOrNothing == [][C10_Step]_vars

\* a field Set on the unrelated object, with a V holding another value than
\* the object's member, returned false
C10_Witness ==
  /\ a_last.op = "Set" /\ a_last.shape = "field" /\ a_last.ret = FALSE
  /\ ObjClass[a_last.obj] = "Other" /\ BoxClass[a_last.box] = "V"
  /\ a_obj[a_last.obj].m # ToU(a_box[a_last.box].v)

\* C11 (one-directional adapters): the Set of a getter-only adapter returns
\* false for every object and boxed value and changes nothing, and its Get on
\* matching types returns true and boxes the member; the Get of a setter-only
\* adapter returns false for every object and boxed value and changes nothing,
\* and its Set on matching types returns true and writes the member.
C11_Step ==
  LET c == a_last' IN
  /\ (c.shape = "getter" /\ c.op = "Set")
       => (c.ret = FALSE /\ a_obj' = a_obj /\ a_box' = a_box)
  /\ (c.shape = "getter" /\ c.op = "Get" /\ ~Mismatch(c.obj, c.box))
       => /\ c.ret = TRUE
          /\ a_box' = [a_box EXCEPT ![c.box].v = a_obj[c.obj].m]
          /\ a_obj' = a_obj
  /\ (c.shape = "setter" /\ c.op = "Get")
       => (c.ret = FALSE /\ a_obj' = a_obj /\ a_box' = a_box)
  /\ (c.shape = "setter" /\ c.op = "Set" /\ ~Mismatch(c.obj, c.box))
       => /\ c.ret = TRUE
          /\ a_obj' = [a_obj EXCEPT ![c.obj].m = ToU(a_box[c.box].v)]
          /\ a_box' = a_box
C11_OneDirectional == [][C11_Step]_vars

\* the Set of a getter-only adapter, on an object of the owner type and a V
\* holding another value than the member, returned false
C11_Witness ==
  /\ a_last.op = "Set" /\ a_last.shape = "getter" /\ a_last.ret = FALSE
  /\ ~Mismatch(a_last.obj, a_last.box)
  /\ a_obj[a_last.obj].m # ToU(a_box[a_last.box].v)

\* the call in flight is a call of kind op on the field adapter, on matching types
FieldCall(c, op) ==
  c.op = op /\ c.shape = "field" /\ ~Mismatch(c.obj, c.box)

\* C12 (field round trip): a field adapter's Set on an object of the owner
\* type with a V holding v returns true and writes U (v) to the bound member
\* of that object alone, no other object and no other member changing; a Get
\* on the same object that follows returns true with the boxed value holding
\* U (v), which is v whenever v is a value of the member's type U.
C12_Step ==
  LET c == a_last' IN
  /\ FieldCall(c, "Set")
       => /\ c.ret = TRUE
          /\ a_obj' = [a_obj EXCEPT ![c.obj].m = ToU(a_box[c.box].v)]
          /\ a_box' = a_box
  /\ (FieldCall(a_last, "Set") /\ FieldCall(c, "Get") /\ c.obj = a_last.obj)
       => LET v == a_box[a_last.box].v IN
          /\ a_last.ret = TRUE /\ c.ret = TRUE
          /\ a_box'[c.box].v = ToU(v)
          /\ v \in 0..(UValues - 1) => a_box'[c.box].v = v
          /\ a_obj' = a_obj
C12_FieldRoundTrip == [][C12_Step]_vars

\* a field Set on an object of the owner type stored a value of a V that is
\* not a value of U
C12_Witness ==
  /\ FieldCall(a_last, "Set") /\ a_last.ret = TRUE
  /\ a_box[a_last.box].v \notin 0..(UValues - 1)
  /\ a_obj[a_last.obj].m = ToU(a_box[a_last.box].v)

\* C12 as stated: the Get that follows the Set boxes v itself, for every v a
\* V holds.
C12_ExactStep ==
  LET c == a_last' IN
  (FieldCall(a_last, "Set") /\ FieldCall(c, "Get") /\ c.obj = a_last.obj)
    => /\ a_last.ret = TRUE /\ c.ret = TRUE
       /\ a_box'[c.box].v = a_box[a_last.box].v
C12_RoundTripExact == [][C12_ExactStep]_vars

\* what a call on a functional read/write adapter returns and leaves behind
PairOutcome(op, object, val) ==
  IF Mismatch(object, val) THEN [ret |-> FALSE, obj |-> a_obj, box |-> a_box]
  ELSE IF op = "Set"
  THEN [ret |-> TRUE, box |-> a_box,
        obj |-> [a_obj EXCEPT ![object].m = ToU(a_box[val].v)]]
  ELSE [ret |-> TRUE, obj |-> a_obj,
        box |-> [a_box EXCEPT ![val].v = a_obj[object].m]]

\* C13 (pair adapters are order-independent): from every state, a Set or Get
\* on the adapter built from (getter, setter) and the same call on the adapter
\* built from (setter, getter) return the same result and leave the same
\* objects and boxed values, and in both the Set runs the setter and the Get
\* runs the getter.
C13_Step ==
  LET c == a_last' IN
  (c.shape \in {"pairSG", "pairGS"} /\ c.op \in {"Set", "Get"})
    => LET out == PairOutcome(c.op, c.obj, c.box) IN
       c.ret = out.ret /\ a_obj' = out.obj /\ a_box' = out.box
C13_PairOrderIndependent == [][C13_Step]_vars

\* a Set on the adapter built from (getter, setter) wrote a non-zero member
C13_Witness ==
  /\ a_last.op = "Set" /\ a_last.shape = "pairGS" /\ a_last.ret = TRUE
  /\ a_obj[a_last.obj].m # 0
  /\ a_obj[a_last.obj].m = ToU(a_box[a_last.box].v)

(***************************************************************************)
(* Properties of the registry (SpecReg).                                   *)
(***************************************************************************)
\* the type n parent links above t
RECURSIVE ParentPow(_, _)
ParentPow(t, n) == IF n = 0 THEN t ELSE ParentPow(m_parents[t], n - 1)

\* C14 (the type hierarchy is one rooted tree): after any sequence of
\* registrations, each with a registered parent, the root is its own parent,
\* every other registered type has one parent, a registered type other than
\* itself, the parent links from any registered type reach the root, and a
\* registration changes neither the parent nor the name of a type registered
\* before.
C14_Inv ==
  m_names # <<>>
    => /\ DOMAIN m_parents = 0..Len(m_names)
       /\ m_parents[ObjectIid] = ObjectIid
       /\ \A t \in Iids \ {ObjectIid} : m_parents[t] \in Iids \ {t}
       /\ \A t \in Iids : ParentPow(t, Len(m_names)) = ObjectIid
       /\ \A t, u \in Iids : m_names[t] = m_names[u] => t = u
C14_Step ==
  \A t \in Iids :
    t \in 1..Len(m_names') /\ m_parents'[t] = m_parents[t] /\ m_names'[t] = m_names[t]
C14_TypeTree == []C14_Inv /\ [][C14_Step]_vars

\* a chain of three types under the root next to a second child of the root
C14_Witness ==
  /\ Len(m_names) = MaxIid
  /\ \E t, u, w \in Iids :
       /\ m_parents[t] = u /\ m_parents[u] = w /\ m_parents[w] = ObjectIid
       /\ Cardinality({t, u, w, ObjectIid}) = 4
       /\ \E x \in Iids \ {t, u, w, ObjectIid} : m_parents[x] = ObjectIid

(***************************************************************************)
(* Further properties of QueryInterface (SpecQuery).                       *)
(***************************************************************************)
\* the member n successor steps from o
RECURSIVE SuccPow(_, _)
SuccPow(o, n) == IF n = 0 THEN o ELSE SuccPow(m_next[o], n - 1)

\* C15 (first match in ring order): when members of the receiver's ring match
\* the queried type, QueryInterface returns the one fewest successor steps
\* from the receiver, no member nearer to the receiver matching; it returns
\* the receiver whenever the receiver's own type or an ancestor matches.
C15_FirstMatch ==
  (qi.self # Null /\ Matching(qi.self, qi.iid) # {})
    => /\ \E k \in 0..(NumObj - 1) :
            /\ SuccPow(qi.self, k) = qi.ret
            /\ \A j \in 0..(k - 1) : SuccPow(qi.self, j) \notin Matching(qi.self, qi.iid)
       /\ qi.self \in Matching(qi.self, qi.iid) => qi.ret = qi.self

\* two members matched a query from a third that does not, and the nearer of
\* the two was returned
C15_Witness ==
  /\ qi.self # Null
  /\ Cardinality(Matching(qi.self, qi.iid)) = 2
  /\ qi.self \notin Matching(qi.self, qi.iid)
  /\ qi.ret = m_next[qi.self]

(***************************************************************************)
(* Further properties of the life cycle (Spec).                            *)
(***************************************************************************)
\* C16 (AddInterface is an exact two-link splice): after a.AddInterface (b)
\* on disjoint rings, a's successor is b's former successor and b's successor
\* is a's former successor, every other successor link is unchanged, so that
\* the new ring from a is a, b's former ring after b in its order, b, then a's
\* former ring after a in its order; no reference count and no disposed flag
\* changes.
C16_Step ==
  \A a, b \in Obj :
    (failed' = "none" /\ DisjointRings(a, b) /\ AddInterface(a, b))
      => /\ m_next'[a] = m_next[b]
         /\ m_next'[b] = m_next[a]
         /\ \A c \in Obj \ {a, b} : m_next'[c] = m_next[c]
         /\ Ring(m_next', a) =
              <<a>> \o Tail(Ring(m_next, b)) \o <<b>> \o Tail(Ring(m_next, a))
         /\ m_count' = m_count
         /\ m_disposed' = m_disposed
C16_ExactSplice == [][C16_Step]_vars

\* the ring 1, 3, 2: the ring 1, 2 with 3 spliced in behind 1
C16_Witness ==
  /\ ~fatal
  /\ Alive = {1, 2, 3}
  /\ m_next[1] = 3 /\ m_next[3] = 2 /\ m_next[2] = 1
  /\ \A o \in Alive : ~m_disposed[o]

(***************************************************************************)
(* Properties of both enumerations (SpecEnumAll).                          *)
(***************************************************************************)
\* the activation is at its guard test, or in its walk
AtEntry(f) == f.pc \in {"enter", "center"}
InWalk(f) == f.pc \in {"walk", "cwalk"}

\* C17 (the re-entrancy guard is ring-wide): DoCollectSources and DoTraceAll
\* return at once, having delegated to no resolver and changed no guard, when
\* the guard of any member of the receiver's ring is set; otherwise they set
\* the receiver's guard, which stays set for the whole walk and is cleared
\* when the walk returns; when no enumeration is in progress no guard is set.
C17_Inv ==
  /\ stack = <<>> => \A o \in Obj : ~m_collecting[o]
  /\ \A i \in 1..Len(stack) : InWalk(stack[i]) => m_collecting[stack[i].self]
C17_Step ==
  /\ (stack # <<>> /\ AtEntry(Top) /\ stack' # stack)
       => IF \E m \in RingSet(m_next, Top.self) : m_collecting[m]
          THEN /\ m_collecting' = m_collecting
               /\ delegated' = delegated /\ asked' = asked
               /\ Len(stack') = Len(stack) - 1
          ELSE /\ m_collecting' = [m_collecting EXCEPT ![Top.self] = TRUE]
               /\ Len(stack') = Len(stack)
               /\ InWalk(stack'[Len(stack)]) /\ stack'[Len(stack)].self = Top.self
  /\ (stack # <<>> /\ InWalk(Top) /\ Len(stack') < Len(stack))
       => m_collecting' = [m_collecting EXCEPT ![Top.self] = FALSE]
C17_RingWideGuard == []C17_Inv /\ [][C17_Step]_vars

\* a nested DoCollectSources has returned into the walk that called it, the
\* receiver's guard being the only one set
C17_Witness ==
  /\ Len(stack) = 1 /\ Top.pc = "cwalk"
  /\ Len(delegated) >= 1
  /\ \A o \in Obj : m_collecting[o] <=> o = Top.self

\* the types from t up to the root, the root left out
RECURSIVE ChainOf(_)
ChainOf(t) == IF t = ObjectIid THEN <<>> ELSE <<t>> \o ChainOf(m_parents[t])

\* the calls a walk of the activation f makes for the member m
CallsFor(f, m) ==
  IF f.pc = "walk"
  THEN <<[op |-> "TraceAll", from |-> f.self, target |-> m, path |-> <<>>]>>
  ELSE LET chain == ChainOf(m_iid[m]) IN
       [i \in 1..Len(chain) |->
          [op |-> "CollectSources", from |-> f.self, target |-> m,
           path |-> f.path \o << <<"$", m_names[chain[i]]>> >>]]

\* the calls a walk of the activation f makes for the members ms, in order
RECURSIVE CallsOver(_, _)
CallsOver(f, ms) ==
  IF ms = <<>> THEN <<>> ELSE CallsFor(f, Head(ms)) \o CallsOver(f, Tail(ms))

\* the walk of a top-level call returns in this step
TopLevelReturns == Len(stack) = 1 /\ InWalk(Top) /\ stack' = <<>>

\* C18 (what an enumeration covers): a top-level DoCollectSources delegates
\* CollectSources, in ring order, for every member of the ring other than the
\* receiver, once for each type in the member's chain from its own type up to
\* but excluding the root, with the path extended by `/$<TypeName>` of that
\* type; a top-level DoTraceAll delegates TraceAll once to the resolver of
\* every member other than the receiver; neither delegates to the receiver.
C18_Step ==
  TopLevelReturns
    => /\ delegated' = CallsOver(Top, Tail(Ring(m_next, Top.self)))
       /\ \A i \in 1..Len(delegated') : delegated'[i].target # Top.self
C18_CoversOthers == [][C18_Step]_vars

\* a collection delegated three times: twice for a member with a chain of two
\* types, once for another member
C18_Witness ==
  /\ stack = <<>> /\ ~fatal
  /\ Len(delegated) = 3
  /\ \A i \in 1..3 : delegated[i].op = "CollectSources"
  /\ delegated[1].target = delegated[2].target
  /\ delegated[1].path # delegated[2].path
  /\ delegated[3].target # delegated[1].target

\* C18 as stated: the delegations cover every member of the ring, the receiver
\* included.
C18_AllStep ==
  TopLevelReturns
    => \A m \in RingSet(m_next, Top.self) :
         \A c \in Range(CallsFor(Top, m)) :
           \E i \in 1..Len(delegated') : delegated'[i] = c
C18_CoversReceiver == [][C18_AllStep]_vars

(***************************************************************************)
(* Further properties of path resolution (SpecTrace).                      *)
(***************************************************************************)
\* the call in flight has a path whose first element does not begin with `$`
NoSelector(c) == c.op # "none" /\ GetElement(c.path)[1] # "$"

\* C19 (a path without a selector): when the first element of the path does
\* not begin with `$`, Connect and Disconnect on the interface-selecting
\* resolver call no resolver, pass the path to nothing, do not abort and
\* change no object.
C19_Inv == NoSelector(tr) => (tr.calls = <<>> /\ failed = "none")
C19_Step ==
  (tr = trNone /\ NoSelector(tr'))
    => /\ failed' = "none" /\ tr'.calls = <<>>
       /\ UNCHANGED <<st, m_count, m_iid, m_disposed, m_collecting, m_next,
                      released, nDelete, nDoDispose, regVars, accVars, stack, asked,
                      delegated>>
C19_NoSelectorNoOp == []C19_Inv /\ [][C19_Step]_vars

\* Connect with the path `basea-x` on a BaseA object returned having called
\* nothing
C19_Witness ==
  /\ tr.op = "Connect" /\ tr.path = << <<"basea-x">> >>
  /\ m_iid[tr.agg] = BaseAIid
  /\ tr.calls = <<>> /\ failed = "none"

\* C19 as stated: the whole path is passed on, no element consumed.
C19_PassThrough ==
  NoSelector(tr) => (Len(tr.calls) = 1 /\ tr.calls[1].path = tr.path)

(***************************************************************************)
(* Properties of the liveness assertion (SpecLoose).                       *)
(***************************************************************************)
\* the sum of the reference counts over o's ring
RingCount(o) == SumCount(m_count, Ring(m_next, o))

\* the receiver's own count is zero and another member of its ring has a count
HeldByOther(o) == m_count[o] = 0 /\ \E m \in Others(o) : m_count[m] > 0

\* C20 (the liveness precondition is ring-wide): QueryInterface aborts exactly
\* when the reference counts over the receiver's ring sum to zero, and so do
\* AddInterface on disjoint rings and Connect and Disconnect through
\* GetTraceResolver; each succeeds on a receiver whose own count is zero while
\* another member of its ring has a count.
C20_Step ==
  /\ \A self \in Obj, iid \in Iids :
       QueryInterface(self, iid)
         => /\ (failed' # "none") <=> (RingCount(self) = 0)
            /\ HeldByOther(self)
                 => qi' = [self |-> self, iid |-> iid, ret |-> DoQueryInterface(self, iid)]
  /\ \A self \in Obj, o \in Obj :
       (AddInterface(self, o) /\ DisjointRings(self, o))
         => /\ (failed' # "none") <=> (RingCount(self) = 0 \/ RingCount(o) = 0)
            /\ HeldByOther(self) => m_next' = Splice(self, o)
  /\ \A agg \in Obj, path \in LoosePaths :
       (Connect(agg, path) \/ Disconnect(agg, path))
         => /\ (failed' # "none") <=> (RingCount(agg) = 0)
            /\ HeldByOther(agg) => (tr'.agg = agg /\ tr'.path = path)
C20_RingWideLiveness == [][C20_Step]_vars

\* a query on a member with a zero count, in a ring another member keeps
\* referenced, returned that member
C20_Witness ==
  /\ qi.self # Null /\ failed = "none"
  /\ HeldByOther(qi.self)
  /\ qi.ret = qi.self

(***************************************************************************)
(* Disposal and release (Spec).                                            *)
(***************************************************************************)
\* C21 (disposal is independent of reference counting): Dispose changes only
\* disposed flags and runs teardown hooks: it changes no reference count and
\* no successor link and deletes no member; a member, disposed or not, is
\* deleted only in a step after which every count of its ring is zero, and
\* the decrement that brings a disposed ring to zero deletes it.
C21_Step ==
  /\ \A self \in Obj :
       Dispose(self)
         => /\ m_count' = m_count /\ m_next' = m_next /\ m_iid' = m_iid
            /\ st' = st /\ nDelete' = nDelete /\ released' = released
  /\ \A o \in Obj :
       (st[o] = "alive" /\ st'[o] = "deleted")
         => /\ \A m \in RingSet(m_next, o) : m_count'[m] = 0
            /\ m_disposed' = m_disposed /\ nDoDispose' = nDoDispose
  /\ \A o \in Obj :
       (st[o] = "alive" /\ m_disposed[o] /\ m_count[o] = 1 /\ m_count'[o] = 0
          /\ \A m \in Others(o) : m_count[m] = 0)
         => \A m \in RingSet(m_next, o) : st'[m] = "deleted"
C21_Inv ==
  \A o \in Alive : m_disposed[o] => \E m \in RingSet(m_next, o) : m_count[m] > 0
C21_DisposeKeepsCounts == []C21_Inv /\ [][C21_Step]_vars

\* a ring of several members was disposed of, lived on, and was released by
\* the last decrement
C21_Witness ==
  /\ ~fatal
  /\ Len(released) >= 2
  /\ \A i \in 1..Len(released) :
       /\ st[released[i]] = "deleted"
       /\ m_disposed[released[i]] /\ nDoDispose[released[i]] = 1

(***************************************************************************)
(* Selectors that name no registered type (SpecTrace).                     *)
(***************************************************************************)
\* the first element of the path is `$Name` and no uid carries Name
UnregisteredSelector(path) ==
  LET element == GetElement(path) IN
  /\ Len(element) >= 1 /\ element[1] = "$"
  /\ \A u \in Iids : <<m_names[u]>> # Tail(element)

\* C22 (unregistered selector is fatal, not a no-op): Connect or Disconnect
\* on the resolver bound to a ring, with a first element `$Name` whose Name
\* was never registered, ends in the assertion of LookupByName: no member of
\* the ring is queried, no call is forwarded, and nothing runs afterwards.
\* (The call is the step that fills tr, with its receiver and its path.)
C22_Step ==
  /\ (tr = trNone /\ tr' # trNone /\ UnregisteredSelector(tr'.path))
       => /\ Connect(tr'.agg, tr'.path) \/ Disconnect(tr'.agg, tr'.path)
          /\ failed' = "LookupByName"
          /\ tr'.calls = <<>>
          /\ qi' = qi
          /\ UNCHANGED <<st, m_count, m_iid, m_disposed, m_collecting, m_next>>
  /\ failed = "LookupByName" => UNCHANGED vars
C22_Inv ==
  failed = "LookupByName"
    => tr # trNone /\ UnregisteredSelector(tr.path) /\ tr.calls = <<>>
C22_UnregisteredFatal == []C22_Inv /\ [][C22_Step]_vars

\* the lookup failed on the resolver of a ring of several members, one of
\* which a registered selector would have found
C22_Witness ==
  /\ failed = "LookupByName"
  /\ tr.op \in {"Connect", "Disconnect"}
  /\ Cardinality(RingSet(m_next, tr.agg)) >= 2
  /\ \E u \in Iids : DoQueryInterface(tr.agg, u) \notin {Null, tr.agg}

(***************************************************************************)
(* The disposed flag of a ring (Spec).                                     *)
(***************************************************************************)
\* every member of o's ring carries o's disposed flag
UniformRing(o) ==
  \A m \in RingSet(m_next, o) : m_disposed[m] = m_disposed[o]

\* C23 (the disposed flag is uniform per ring): after any sequence of
\* creations, AddInterface calls and completed Dispose calls all members of
\* one ring have the same disposed flag.  An AddInterface where any member of
\* the receiver's or the argument's ring is disposed finds the receiver or the
\* argument itself disposed, is fatal and links nothing; a member becomes
\* disposed only in a completed Dispose, which marks every member of its ring
\* and no other object.  (Both calls keep every count and every object's life
\* state, so only such steps are examined.)
C23_Inv == \A o \in Alive : UniformRing(o)
C23_Step ==
  (m_count' = m_count /\ st' = st)
    => \A self \in Alive :
         /\ \A o \in Alive :
              (\E m \in RingSet(m_next, self) \cup RingSet(m_next, o) : m_disposed[m])
                => (AddInterface(self, o)
                      => /\ m_disposed[self] \/ m_disposed[o]
                         /\ failed' = "AddInterface" /\ m_next' = m_next
                         /\ m_disposed' = m_disposed)
         /\ (~m_disposed[self] /\ m_disposed'[self])
              => /\ Dispose(self) /\ failed' = "none"
                 /\ \A m \in RingSet(m_next, self) : ~m_disposed[m] /\ m_disposed'[m]
                 /\ \A m \in Obj \ RingSet(m_next, self) : m_disposed'[m] = m_disposed[m]
C23_UniformDisposed == []C23_Inv /\ [][C23_Step]_vars

\* a disposed ring of several members beside an object that is not disposed:
\* the two an unchecked aggregation would mix
C23_Witness ==
  /\ ~fatal
  /\ \E o \in Alive, x \in Alive :
       /\ m_disposed[o] /\ Cardinality(RingSet(m_next, o)) >= 2
       /\ ~m_disposed[x] /\ m_count[x] > 0 /\ m_count[o] > 0

(***************************************************************************)
(* SpecSplit: AddInterface and QueryInterface on objects that start as one *)
(* ring, as CreateObject and AddInterface on distinct rings have built it  *)
(* and Ref and Unref have left its counts: every object alive, none        *)
(* disposed, the links one cycle through all objects, the counts 0 or 1    *)
(* with at least one positive.  No object is created or released, so two   *)
(* rings exist only after an AddInterface inside one ring.                 *)
(***************************************************************************)
SplitIids == {BaseAIid, BaseBIid}

\* the orders in which a ring through all objects is walked from object 1
RingOrders ==
  {s \in [1..NumObj -> Obj] : s[1] = 1 /\ \A i, j \in 1..NumObj : s[i] = s[j] => i = j}
CycleOf(s) ==
  [o \in Obj |-> LET i == CHOOSE k \in 1..NumObj : s[k] = o
                 IN IF i = NumObj THEN s[1] ELSE s[i + 1]]

InitOneRing ==
  /\ st = [o \in Obj |-> "alive"]
  /\ m_count \in {c \in [Obj -> 0..1] : \E o \in Obj : c[o] > 0}
  /\ m_iid \in [Obj -> SplitIids]
  /\ m_disposed = [o \in Obj |-> FALSE]
  /\ m_collecting = [o \in Obj |-> FALSE]
  /\ m_next \in {CycleOf(s) : s \in RingOrders}
  /\ failed = "none"
  /\ released = <<>>
  /\ nDelete = [o \in Obj |-> 0]
  /\ nDoDispose = [o \in Obj |-> 0]
  /\ qi = qiNone

InitSplit == InitOneRing /\ InitRegistry /\ InitTrace /\ InitAcc

NextSplit ==
  \/ \E self \in Obj, o \in Obj : AddInterface(self, o)
  \/ Idle /\ \E self \in Obj, iid \in Iids : QueryInterface(self, iid)
  \/ QueryReturn

SpecSplit == InitSplit /\ [][NextSplit]_vars

(***************************************************************************)
(* AddInterface inside one ring (SpecSplit).                               *)
(***************************************************************************)
\* the counts of the members of o's ring under the links nxt have a positive sum
PartHeld(nxt, o) == SumCount(m_count, Ring(nxt, o)) > 0

\* C24 (AddInterface inside one ring is unchecked): a.AddInterface(a) leaves
\* the ring unchanged; a.AddInterface(b), with b another member of a's ring,
\* splits the ring into two disjoint cycles, one through a and one through
\* b, whose union is the former member set, and raises no assertion when both
\* parts keep a positive count sum; after that no QueryInterface from a
\* member of one part returns a member of the other part.
C24_Step ==
  \A self \in Obj : \A o \in RingSet(m_next, self) :
    AddInterface(self, o)
      => LET ring == RingSet(m_next, self)
             partA == RingSet(m_next', self)
             partB == RingSet(m_next', o)
         IN /\ o = self => m_next' = m_next /\ failed' = "none"
            /\ o # self
                 => /\ partA \cap partB = {} /\ partA \cup partB = ring
                    /\ self \in partA /\ o \in partB
                    /\ \A m \in ring : IsCycle(m)'
                    /\ \A m \in Obj \ ring : m_next'[m] = m_next[m]
                    /\ (PartHeld(m_next', self) /\ PartHeld(m_next', o))
                         <=> failed' = "none"
                    /\ \A p \in partA, iid \in Iids :
                         DoQueryInterface(p, iid)' \notin partB
                    /\ \A p \in partB, iid \in Iids :
                         DoQueryInterface(p, iid)' \notin partA
C24_Inv ==
  qi.self # Null => qi.ret \in {Null} \cup RingSet(m_next, qi.self)
C24_SameRingSplits == []C24_Inv /\ [][C24_Step]_vars

\* after a split that raised no assertion, a query from one part for the
\* type of a member of the other part has returned null
C24_Witness ==
  /\ ~fatal
  /\ qi.self # Null /\ qi.ret = Null
  /\ \E b \in Alive \ RingSet(m_next, qi.self) : qi.iid \in Lineage(m_iid[b])

====
